---- MODULE Spec2Model ----
(***************************************************************************)
(* Model of process_audio.py: energy_vad, estimate_speaker_count,          *)
(* assign_speaker_for_interval and merge_transcript_segments.              *)
(*                                                                         *)
(* Times are exact rationals, held as integers in ticks: one audio sample  *)
(* lasts TicksPerSample ticks, so sr = 1 / TicksPerSample per tick,        *)
(* len(audio) / sr = len(audio) * TicksPerSample, and int(t * sr) is the   *)
(* truncated quotient of t by TicksPerSample.  An option given in ticks    *)
(* that is no multiple of TicksPerSample is not a whole number of samples. *)
(***************************************************************************)
EXTENDS Integers, Sequences, FiniteSets, TLC

VARIABLES
  \* energy_vad
  audioLen, options, energies, threshold, speech_flags, segments, vadResult, vadPc,
  \* estimate_speaker_count
  rows, diar_options, max_speakers, k, best_score, best_k, sweep, estResult, estPc,
  \* assign_speaker_for_interval
  aStart, aEnd, aSegments, aResult, aPc,
  \* merge_transcript_segments
  transcript_segments, diarized_segments, merge_gap, merged, mergePc

vadVars == <<audioLen, options, energies, threshold, speech_flags, segments, vadResult, vadPc>>
estVars == <<rows, diar_options, max_speakers, k, best_score, best_k, sweep, estResult, estPc>>
asgVars == <<aStart, aEnd, aSegments, aResult, aPc>>
mrgVars == <<transcript_segments, diarized_segments, merge_gap, merged, mergePc>>
vars == <<vadVars, estVars, asgVars, mrgVars>>

-----------------------------------------------------------------------------
(* Python values *)

\* Python's None, and a present value x, as an optional.
None == <<>>
Some(x) == <<x>>

\* bool(v) of an optional number: None and 0 are falsy.
Truthy(v) == v # None /\ v[1] # 0

\* a or b
PyOr(a, b) == IF Truthy(a) THEN a ELSE b

Max(a, b) == IF a >= b THEN a ELSE b
Min(a, b) == IF a <= b THEN a ELSE b
Abs(a) == IF a >= 0 THEN a ELSE -a

\* int(num / den) for den > 0: truncation toward zero.
Trunc(num, den) == IF num >= 0 THEN num \div den ELSE -((-num) \div den)

-----------------------------------------------------------------------------
(* energy_vad *)

\* Model resolution: ticks per audio sample (1 / sr in ticks).
TicksPerSample == 2
\* Longest audio buffer, in samples.
MaxAudio == 5
\* Frame energies range over 0..MaxEnergy.
MaxEnergy == 1

FrameLengths == {-1, 1, 3, 4}
HopLengths == {-1, 1, 3, 4}
MinSpeechValues == {0, 3}
MinSilenceValues == {0, 2}
\* threshold_multiplier as a fraction <<numerator, denominator>>; the default is 0.5.
Multipliers == {<<0, 1>>, <<1, 2>>}
ManualThresholds == {None, Some(0), Some(1)}

VadOptions ==
  [frame_length : FrameLengths, hop_length : HopLengths,
   min_speech : MinSpeechValues, min_silence : MinSilenceValues,
   threshold_multiplier : Multipliers,
   thr : ManualThresholds, threshold : ManualThresholds]

\* len(audio) / sr
Duration(len) == len * TicksPerSample

frame_samples(opts) == Max(1, Trunc(opts.frame_length, TicksPerSample))
hop_samples(opts) == Max(1, Trunc(opts.hop_length, TicksPerSample))

\* options.get('thr') or options.get('threshold')
manual_threshold(opts) == PyOr(opts.thr, opts.threshold)

\* len(range(0, len(audio) - frame_samples + 1, hop_samples))
NumFrames(len, opts) ==
  IF len - frame_samples(opts) + 1 <= 0 THEN 0
  ELSE ((len - frame_samples(opts)) \div hop_samples(opts)) + 1

RECURSIVE SumSeq(_)
SumSeq(s) == IF s = <<>> THEN 0 ELSE Head(s) + SumSeq(Tail(s))

\* e > mean(en) + std(en) * num/den, decided exactly: with n = len(en),
\* S = sum(en), Q = sum(en^2), it is n*e - S > sqrt(n*Q - S^2) * num/den.
AboveStatistic(e, en, mult) ==
  LET n == Len(en)
      S == SumSeq(en)
      Q == SumSeq([i \in 1..n |-> en[i] * en[i]])
      a == n * e - S
      V == n * Q - S * S
  IN a > 0 /\ mult[2] * mult[2] * a * a > mult[1] * mult[1] * V

\* The threshold of lines 81-84: the explicit value, or the statistic.
SelectThreshold(opts) ==
  IF manual_threshold(opts) # None
  THEN [kind |-> "manual", value |-> manual_threshold(opts)[1]]
  ELSE [kind |-> "statistic", value |-> 0]

\* energies_np > threshold
SpeechFlags(en, thr, opts) ==
  [i \in 1..Len(en) |->
     IF thr.kind = "manual" THEN en[i] > thr.value
     ELSE AboveStatistic(en[i], en, opts.threshold_multiplier)]

\* Lines 98-102 and 108-112: extend the last segment or append a new one.
CloseSegment(segs, seg_start, seg_end, opts) ==
  IF segs # <<>> /\ seg_start - segs[Len(segs)][2] < opts.min_silence
  THEN [segs EXCEPT ![Len(segs)] = <<segs[Len(segs)][1], seg_end>>]
  ELSE Append(segs, <<seg_start, seg_end>>)

\* The loop of lines 92-103 from frame `index` (0-based) on, then lines 105-112.
RECURSIVE ScanFlags(_, _, _, _, _, _)
ScanFlags(flags, index, current_start, segs, len, opts) ==
  IF index >= Len(flags)
  THEN IF current_start # None
       THEN CloseSegment(segs, current_start[1] * opts.hop_length, Duration(len), opts)
       ELSE segs
  ELSE IF flags[index + 1] /\ current_start = None
       THEN ScanFlags(flags, index + 1, Some(index), segs, len, opts)
  ELSE IF ~flags[index + 1] /\ current_start # None
       THEN ScanFlags(flags, index + 1, None,
              CloseSegment(segs, current_start[1] * opts.hop_length,
                Min(Duration(len), index * opts.hop_length + opts.frame_length), opts),
              len, opts)
  ELSE ScanFlags(flags, index + 1, current_start, segs, len, opts)

\* A filter that keeps every segment.
RefineKeepAll(segs, opts) == segs

\* Lines 114-117: keep the segments of at least min_speech.
Refine(segs, opts) == SelectSeq(segs, LAMBDA s : s[2] - s[1] >= opts.min_speech)

\* No fallback to the whole buffer.
RefinedAsIs(refined, len) == refined

\* Lines 119-120: never return an empty list.
RefinedOrWhole(refined, len) ==
  IF refined = <<>> THEN << <<0, Duration(len)>> >> ELSE refined

InitVad ==
  /\ audioLen \in 0..MaxAudio
  /\ options \in VadOptions
  /\ energies = <<>> /\ threshold = [kind |-> "unset", value |-> 0] /\ speech_flags = <<>>
  /\ segments = <<>> /\ vadResult = <<>>
  /\ vadPc = "start"
  \* estimate_speaker_count is not running
  /\ rows = 0 /\ diar_options = None /\ max_speakers = 0 /\ k = 0 /\ best_score = 0
  /\ best_k = 0 /\ sweep = <<>> /\ estResult = None /\ estPc = "idle"
  \* assign_speaker_for_interval is not running
  /\ aStart = 0 /\ aEnd = 0 /\ aSegments = <<>> /\ aResult = None /\ aPc = "idle"
  \* merge_transcript_segments is not running
  /\ transcript_segments = <<>> /\ diarized_segments = <<>> /\ merge_gap = 0
  /\ merged = <<>> /\ mergePc = "idle"

\* Lines 68-69: the buffer is shorter than one frame.
VadShortBuffer ==
  /\ vadPc = "start"
  /\ audioLen < frame_samples(options)
  /\ vadResult' = << <<0, Duration(audioLen)>> >>
  /\ vadPc' = "done"
  /\ UNCHANGED <<audioLen, options, energies, threshold, speech_flags, segments>>
  /\ UNCHANGED <<estVars, asgVars, mrgVars>>

\* Lines 71-79: one RMS energy per frame; the energies are the audio's, any values.
VadEnergies ==
  /\ vadPc = "start"
  /\ audioLen >= frame_samples(options)
  /\ \E en \in [1..NumFrames(audioLen, options) -> 0..MaxEnergy] :
       /\ energies' = en
       /\ IF Len(en) = 0
          THEN vadResult' = << <<0, Duration(audioLen)>> >> /\ vadPc' = "done"
          ELSE vadResult' = vadResult /\ vadPc' = "threshold"
  /\ UNCHANGED <<audioLen, options, threshold, speech_flags, segments>>
  /\ UNCHANGED <<estVars, asgVars, mrgVars>>

\* Lines 81-88.
VadThreshold ==
  /\ vadPc = "threshold"
  /\ threshold' = SelectThreshold(options)
  /\ speech_flags' = SpeechFlags(energies, SelectThreshold(options), options)
  /\ vadPc' = "scan"
  /\ UNCHANGED <<audioLen, options, energies, segments, vadResult>>
  /\ UNCHANGED <<estVars, asgVars, mrgVars>>

\* Lines 89-123.
VadSegments ==
  /\ vadPc = "scan"
  /\ segments' = ScanFlags(speech_flags, 0, None, <<>>, audioLen, options)
  /\ vadResult' = RefinedOrWhole(Refine(segments', options), audioLen)
  /\ vadPc' = "done"
  /\ UNCHANGED <<audioLen, options, energies, threshold, speech_flags>>
  /\ UNCHANGED <<estVars, asgVars, mrgVars>>

NextVad == VadShortBuffer \/ VadEnergies \/ VadThreshold \/ VadSegments

-----------------------------------------------------------------------------
(* estimate_speaker_count *)

\* Most feature rows (features.shape[0]).
MaxRows == 4

NumSpeakersValues == {None, Some(-1), Some(0), Some(1), Some(3)}
MinSpeakersValues == {0, 2, 3}
MaxSpeakersValues == {1, 3, 6}
\* Values the scorer can return; the clusterer and the scorer are any functions.
ScoreValues == {-1, 0, 1}
\* best_score = -1.0
InitialBestScore == -1

DiarOptions ==
  [num_speakers : NumSpeakersValues, min_speakers : MinSpeakersValues,
   max_speakers : MaxSpeakersValues]

\* Line 160: `if num_speakers:`.
HasOverride(opts) == Truthy(opts.num_speakers)

\* The override taken as it is, not clamped to 1.
OverrideUnclamped(opts) == opts.num_speakers[1]

\* Line 161: max(1, int(num_speakers)).
OverrideResult(opts) == Max(1, opts.num_speakers[1])

\* Line 170: the candidate k is clustered.
Clusterable(kk, n) == ~(kk <= 1 \/ kk > n)

\* A later k wins a tie.
ImprovesOrTies(score, best) == score >= best

\* Line 177: `if score > best_score`.
Improves(score, best) == score > best

InitEst ==
  /\ rows \in 0..MaxRows
  /\ diar_options \in DiarOptions
  /\ max_speakers = 0 /\ k = 0 /\ best_score = 0 /\ best_k = 0
  /\ sweep = <<>> /\ estResult = None
  /\ estPc = "start"
  \* energy_vad is not running
  /\ audioLen = 0 /\ options = None /\ energies = <<>> /\ threshold = [kind |-> "unset", value |-> 0]
  /\ speech_flags = <<>> /\ segments = <<>> /\ vadResult = <<>> /\ vadPc = "idle"
  \* assign_speaker_for_interval is not running
  /\ aStart = 0 /\ aEnd = 0 /\ aSegments = <<>> /\ aResult = None /\ aPc = "idle"
  \* merge_transcript_segments is not running
  /\ transcript_segments = <<>> /\ diarized_segments = <<>> /\ merge_gap = 0
  /\ merged = <<>> /\ mergePc = "idle"

\* Lines 156-157.
EstFewRows ==
  /\ estPc = "start"
  /\ rows <= 1
  /\ estResult' = Some(1)
  /\ estPc' = "done"
  /\ UNCHANGED <<rows, diar_options, max_speakers, k, best_score, best_k, sweep>>
  /\ UNCHANGED <<vadVars, asgVars, mrgVars>>

\* Lines 159-161.
EstOverride ==
  /\ estPc = "start"
  /\ rows > 1
  /\ HasOverride(diar_options)
  /\ estResult' = Some(OverrideResult(diar_options))
  /\ estPc' = "done"
  /\ UNCHANGED <<rows, diar_options, max_speakers, k, best_score, best_k, sweep>>
  /\ UNCHANGED <<vadVars, asgVars, mrgVars>>

\* Lines 163-169: the sweep starts at k = min_speakers.
EstBeginSweep ==
  /\ estPc = "start"
  /\ rows > 1
  /\ ~HasOverride(diar_options)
  /\ max_speakers' = Min(diar_options.max_speakers, rows)
  /\ k' = diar_options.min_speakers
  /\ best_score' = InitialBestScore
  /\ best_k' = 1
  /\ estPc' = "sweep"
  /\ UNCHANGED <<rows, diar_options, sweep, estResult>>
  /\ UNCHANGED <<vadVars, asgVars, mrgVars>>

\* Lines 170-171: k is not clustered.
EstSkip ==
  /\ estPc = "sweep"
  /\ k <= max_speakers
  /\ ~Clusterable(k, rows)
  /\ k' = k + 1
  /\ UNCHANGED <<rows, diar_options, max_speakers, best_score, best_k, sweep, estResult, estPc>>
  /\ UNCHANGED <<vadVars, asgVars, mrgVars>>

\* Lines 172-175: the clustering has a single label.
EstCollapsed ==
  /\ estPc = "sweep"
  /\ k <= max_speakers
  /\ Clusterable(k, rows)
  /\ sweep' = Append(sweep, [k |-> k, labels |-> 1, score |-> None])
  /\ k' = k + 1
  /\ UNCHANGED <<rows, diar_options, max_speakers, best_score, best_k, estResult, estPc>>
  /\ UNCHANGED <<vadVars, asgVars, mrgVars>>

\* Lines 172-179: the clustering has `labels` > 1 distinct labels and is scored.
EstScored ==
  /\ estPc = "sweep"
  /\ k <= max_speakers
  /\ Clusterable(k, rows)
  /\ \E labels \in 2..k, score \in ScoreValues :
       /\ sweep' = Append(sweep, [k |-> k, labels |-> labels, score |-> Some(score)])
       /\ best_score' = IF Improves(score, best_score) THEN score ELSE best_score
       /\ best_k' = IF Improves(score, best_score) THEN k ELSE best_k
  /\ k' = k + 1
  /\ UNCHANGED <<rows, diar_options, max_speakers, estResult, estPc>>
  /\ UNCHANGED <<vadVars, asgVars, mrgVars>>

\* Lines 181-185.
EstReturn ==
  /\ estPc = "sweep"
  /\ k > max_speakers
  /\ estResult' = Some(IF best_k <= 1 THEN 1 ELSE best_k)
  /\ estPc' = "done"
  /\ UNCHANGED <<rows, diar_options, max_speakers, k, best_score, best_k, sweep>>
  /\ UNCHANGED <<vadVars, asgVars, mrgVars>>

NextEst ==
  EstFewRows \/ EstOverride \/ EstBeginSweep \/ EstSkip \/ EstCollapsed \/ EstScored \/ EstReturn

-----------------------------------------------------------------------------
(* assign_speaker_for_interval *)

\* Most diarized segments in the list.
MaxSegments == 2

\* Times of diarized segments, and the speakers.
SegmentTimes == 0..5
Speakers == {0, 1}
\* The utterance intervals (start, end) tried.
UtteranceSpans == {<<0, 5>>, <<1, 3>>, <<2, 2>>, <<4, 5>>, <<0, 1>>, <<2, 5>>}

\* A diarized segment comes from a VAD interval, start <= end.
DiarizedSegment ==
  {sg \in [start : SegmentTimes, end : SegmentTimes, speaker : Speakers] : sg.start <= sg.end}

RECURSIVE SeqsUpTo(_, _)
SeqsUpTo(S, n) ==
  IF n = 0 THEN {<<>>}
  ELSE SeqsUpTo(S, n - 1) \cup {Append(s, x) : s \in {t \in SeqsUpTo(S, n - 1) : Len(t) = n - 1}, x \in S}

\* No early return on the midpoint: the best overlap always decides.
ContainsNever(segment, start, end) == FALSE

\* Line 222: segment.start <= midpoint <= segment.end, midpoint = (start + end) / 2.
ContainsMidpoint(segment, start, end) ==
  2 * segment.start <= start + end /\ start + end <= 2 * segment.end

\* Line 218.
Overlap(segment, start, end) == Min(end, segment.end) - Max(start, segment.start)

\* A later segment wins a tie of overlaps.
BetterOrEqual(overlap, best_overlap) == overlap >= best_overlap

\* Line 219: `if overlap > best_overlap`.
Better(overlap, best_overlap) == overlap > best_overlap

\* Line 228: min(abs(midpoint - seg.start), abs(midpoint - seg.end)), doubled.
Distance2(segment, start, end) ==
  Min(Abs(start + end - 2 * segment.start), Abs(start + end - 2 * segment.end))

\* np.argmin: the first index (1-based here) of the least value.
ArgMin(d) == CHOOSE i \in 1..Len(d) :
  /\ \A j \in 1..Len(d) : d[i] <= d[j]
  /\ \A j \in 1..(i - 1) : d[j] > d[i]

\* The loop of lines 217-223 from index idx (1-based) on, then lines 225-229.
RECURSIVE ScanSegments(_, _, _, _, _, _)
ScanSegments(start, end, segs, idx, best_index, best_overlap) ==
  IF idx > Len(segs)
  THEN IF best_index # None
       THEN segs[best_index[1]].speaker
       ELSE segs[ArgMin([i \in 1..Len(segs) |-> Distance2(segs[i], start, end)])].speaker
  ELSE LET overlap == Overlap(segs[idx], start, end)
           better == Better(overlap, best_overlap)
       IN IF ContainsMidpoint(segs[idx], start, end)
          THEN segs[idx].speaker
          ELSE ScanSegments(start, end, segs, idx + 1,
                 IF better THEN Some(idx) ELSE best_index,
                 IF better THEN overlap ELSE best_overlap)

\* Lines 205-229.
assign_speaker_for_interval(start, end, segs) ==
  IF segs = <<>> THEN 0 ELSE ScanSegments(start, end, segs, 1, None, 0)

InitAssign ==
  /\ \E iv \in UtteranceSpans : aStart = iv[1] /\ aEnd = iv[2]
  /\ aSegments \in SeqsUpTo(DiarizedSegment, MaxSegments)
  /\ aResult = None
  /\ aPc = "start"
  \* energy_vad is not running
  /\ audioLen = 0 /\ options = None /\ energies = <<>> /\ threshold = [kind |-> "unset", value |-> 0]
  /\ speech_flags = <<>> /\ segments = <<>> /\ vadResult = <<>> /\ vadPc = "idle"
  \* estimate_speaker_count is not running
  /\ rows = 0 /\ diar_options = None /\ max_speakers = 0 /\ k = 0 /\ best_score = 0
  /\ best_k = 0 /\ sweep = <<>> /\ estResult = None /\ estPc = "idle"
  \* merge_transcript_segments is not running
  /\ transcript_segments = <<>> /\ diarized_segments = <<>> /\ merge_gap = 0
  /\ merged = <<>> /\ mergePc = "idle"

AssignCall ==
  /\ aPc = "start"
  /\ aResult' = Some(assign_speaker_for_interval(aStart, aEnd, aSegments))
  /\ aPc' = "done"
  /\ UNCHANGED <<aStart, aEnd, aSegments>>
  /\ UNCHANGED <<vadVars, estVars, mrgVars>>

NextAssign == AssignCall

-----------------------------------------------------------------------------
(* merge_transcript_segments *)

\* Most utterances in the transcript.
MaxUtterances == 3

\* A text is a sequence of characters; " " stands for any whitespace character.
Texts == {<<>>, <<" ">>, <<"a">>, <<" ", "b", " ">>}
UtteranceIntervals == {<<0, 0>>, <<0, 1>>, <<1, 2>>, <<2, 2>>}
Utterances ==
  {[start |-> iv[1], end |-> iv[2], text |-> t] : iv \in UtteranceIntervals, t \in Texts}
Diarizations ==
  { <<>>,
    << [start |-> 0, end |-> 1, speaker |-> 0], [start |-> 1, end |-> 2, speaker |-> 1] >> }
MergeGaps == {0, 1}

\* str.strip()
RECURSIVE LStrip(_)
LStrip(t) == IF t # <<>> /\ Head(t) = " " THEN LStrip(Tail(t)) ELSE t

RECURSIVE RStrip(_)
RStrip(t) == IF t # <<>> /\ t[Len(t)] = " " THEN RStrip(SubSeq(t, 1, Len(t) - 1)) ELSE t

Strip(t) == RStrip(LStrip(t))

\* Only the empty string is skipped, whitespace is not stripped first.
SkippedOnlyEmpty(seg) == seg.text = <<>>

\* Lines 240-242: `if not text: continue`, with text = seg.text.strip().
Skipped(seg) == Strip(seg.text) = <<>>

\* The gap must be strictly below merge_gap.
CanCoalesceStrict(mrg, speaker, seg, gap) ==
  /\ mrg # <<>>
  /\ mrg[Len(mrg)].speaker = speaker
  /\ seg.start - mrg[Len(mrg)].end < gap

\* Line 244.
CanCoalesce(mrg, speaker, seg, gap) ==
  /\ mrg # <<>>
  /\ mrg[Len(mrg)].speaker = speaker
  /\ seg.start - mrg[Len(mrg)].end <= gap

\* The text is appended but the end is not moved.
ExtendLastTextOnly(last, seg) ==
  [last EXCEPT !.text = Strip(last.text \o <<" ">> \o Strip(seg.text))]

\* Lines 245-246.
ExtendLast(last, seg) ==
  [last EXCEPT !.end = seg.end, !.text = Strip(last.text \o <<" ">> \o Strip(seg.text))]

\* Lines 240-249: the body of the loop for one utterance.
MergeOne(mrg, seg, diar, gap) ==
  IF Skipped(seg) THEN mrg
  ELSE LET speaker == assign_speaker_for_interval(seg.start, seg.end, diar)
       IN IF CanCoalesce(mrg, speaker, seg, gap)
          THEN [mrg EXCEPT ![Len(mrg)] = ExtendLast(mrg[Len(mrg)], seg)]
          ELSE Append(mrg, [start |-> seg.start, end |-> seg.end,
                            speaker |-> speaker, text |-> Strip(seg.text)])

\* transcript_segments holds the utterances the loop has consumed so far.
InitMerge ==
  /\ transcript_segments = <<>>
  /\ diarized_segments \in Diarizations
  /\ merge_gap \in MergeGaps
  /\ merged = <<>>
  /\ mergePc = "loop"
  \* energy_vad is not running
  /\ audioLen = 0 /\ options = None /\ energies = <<>> /\ threshold = [kind |-> "unset", value |-> 0]
  /\ speech_flags = <<>> /\ segments = <<>> /\ vadResult = <<>> /\ vadPc = "idle"
  \* estimate_speaker_count is not running
  /\ rows = 0 /\ diar_options = None /\ max_speakers = 0 /\ k = 0 /\ best_score = 0
  /\ best_k = 0 /\ sweep = <<>> /\ estResult = None /\ estPc = "idle"
  \* assign_speaker_for_interval is not running
  /\ aStart = 0 /\ aEnd = 0 /\ aSegments = <<>> /\ aResult = None /\ aPc = "idle"

\* Lines 239-249: the next utterance of the transcript is processed.
MergeStep ==
  /\ mergePc = "loop"
  /\ Len(transcript_segments) < MaxUtterances
  /\ \E seg \in Utterances :
       /\ transcript_segments' = Append(transcript_segments, seg)
       /\ merged' = MergeOne(merged, seg, diarized_segments, merge_gap)
  /\ UNCHANGED <<diarized_segments, merge_gap, mergePc>>
  /\ UNCHANGED <<vadVars, estVars, asgVars>>

\* Line 251: the transcript is exhausted.
MergeReturn ==
  /\ mergePc = "loop"
  /\ mergePc' = "done"
  /\ UNCHANGED <<transcript_segments, diarized_segments, merge_gap, merged>>
  /\ UNCHANGED <<vadVars, estVars, asgVars>>

NextMerge == MergeStep \/ MergeReturn

-----------------------------------------------------------------------------
(* Specifications: one per function, and their union. *)

SpecVad == InitVad /\ [][NextVad]_vars
SpecEst == InitEst /\ [][NextEst]_vars
SpecAssign == InitAssign /\ [][NextAssign]_vars
SpecMerge == InitMerge /\ [][NextMerge]_vars

Init == InitVad \/ InitEst \/ InitAssign \/ InitMerge

Next == NextVad \/ NextEst \/ NextAssign \/ NextMerge

Spec == Init /\ [][Next]_vars

-----------------------------------------------------------------------------
(* Properties of energy_vad *)

WholeBuffer == << <<0, Duration(audioLen)>> >>

NoneSurvives == \A i \in 1..Len(segments) : segments[i][2] - segments[i][1] < options.min_speech

\* C5: energy_vad never returns an empty list; when the buffer is shorter than one
\* frame, or slicing yields no frame, or no candidate interval survives the
\* min_speech filter, the result is exactly the single interval (0, len(audio)/sr).
C5_NeverEmpty ==
  vadPc = "done" =>
    /\ vadResult # <<>>
    /\ (audioLen < frame_samples(options) \/ energies = <<>> \/ NoneSurvives)
         => vadResult = WholeBuffer

\* Candidate intervals were found and the min_speech filter dropped them all.
C5_Witness ==
  /\ vadPc = "done"
  /\ segments # <<>>
  /\ NoneSurvives
  /\ vadResult = WholeBuffer

PositiveOptions ==
  /\ options.frame_length > 0 /\ options.hop_length > 0
  /\ options.min_speech >= 0 /\ options.min_silence >= 0

\* C6: with frame_length > 0, hop_length > 0, min_speech >= 0 and min_silence >= 0
\* (hop_length and frame_length need not be whole numbers of samples), every returned
\* interval satisfies 0 <= start <= end <= len(audio)/sr, and the returned intervals
\* are sorted by start and pairwise non-overlapping.
C6_IntervalsOrdered ==
  (vadPc = "done" /\ PositiveOptions) =>
    /\ \A i \in 1..Len(vadResult) :
         /\ 0 <= vadResult[i][1]
         /\ vadResult[i][1] <= vadResult[i][2]
         /\ vadResult[i][2] <= Duration(audioLen)
    /\ \A i \in 2..Len(vadResult) : vadResult[i][1] >= vadResult[i - 1][2]

\* A hop that is not a whole number of samples, a candidate interval that starts
\* after the end of the buffer, and two intervals returned.
C6_Witness ==
  /\ vadPc = "done"
  /\ PositiveOptions
  /\ options.hop_length % TicksPerSample # 0
  /\ \E i \in 1..Len(segments) : segments[i][1] > Duration(audioLen)
  /\ Len(vadResult) >= 2

\* C7: whenever the options hold a value under thr or threshold (0 included), the
\* threshold that flags the speech frames is that explicit value; the statistic is
\* used only when neither key is given.
C7_ExplicitThresholdUsed ==
  (vadPc \in {"scan", "done"} /\ threshold.kind # "unset") =>
    IF options.thr # None \/ options.threshold # None
    THEN /\ threshold.kind = "manual"
         /\ threshold.value = (IF options.thr # None THEN options.thr[1] ELSE options.threshold[1])
    ELSE threshold.kind = "statistic"

-----------------------------------------------------------------------------
(* Properties of estimate_speaker_count *)

\* The sweep loop was never entered and the clusterer never called.
NoSweep == best_k = 0 /\ sweep = <<>>

ValidRuns == {i \in 1..Len(sweep) : sweep[i].labels > 1}

SweepRange ==
  Max(2, diar_options.min_speakers) .. Min(diar_options.max_speakers, rows)

\* The smallest valid k whose score is the maximum over the valid k.
SmallestBest(valid) ==
  LET best == CHOOSE i \in valid : \A j \in valid : sweep[j].score[1] <= sweep[i].score[1]
      ties == {i \in valid : sweep[i].score[1] = sweep[best].score[1]}
  IN sweep[CHOOSE i \in ties : \A j \in ties : sweep[i].k <= sweep[j].k].k

SweepDone == estPc = "done" /\ rows > 1 /\ ~HasOverride(diar_options)

\* C8: in the sweep the result is the smallest k in
\* [max(2, min_speakers), min(max_speakers, row_count)] whose clustering has more than
\* one distinct label and whose score is the maximum over all such k; the result is 1
\* if and only if no k in that range produced a clustering with more than one label.
C8_SweepBest ==
  SweepDone =>
    /\ {sweep[i].k : i \in 1..Len(sweep)} = SweepRange
    /\ (estResult = Some(1)) <=> (ValidRuns = {})
    /\ ValidRuns # {} => estResult = Some(SmallestBest(ValidRuns))

\* The valid k whose score is above the initial best_score of -1.0.
ScoredAbove == {i \in ValidRuns : sweep[i].score[1] > InitialBestScore}

\* C8 as amended: the result is the smallest such k whose score is the maximum,
\* provided that maximum is greater than -1.0, the initial best_score; the result is 1
\* if and only if no k in the range produced a clustering with more than one label and
\* a score greater than -1.0.
C8_SweepBestAmended ==
  SweepDone =>
    /\ {sweep[i].k : i \in 1..Len(sweep)} = SweepRange
    /\ (estResult = Some(1)) <=> (ScoredAbove = {})
    /\ ScoredAbove # {} => estResult = Some(SmallestBest(ValidRuns))

\* Two valid k tie at the maximum score and the smaller one is returned.
C8_Witness ==
  /\ SweepDone
  /\ \E i, j \in ValidRuns :
       /\ sweep[i].k < sweep[j].k
       /\ sweep[i].score = sweep[j].score
       /\ \A m \in ValidRuns : sweep[m].score[1] <= sweep[i].score[1]
       /\ estResult = Some(sweep[i].k)

-----------------------------------------------------------------------------
(* Properties of assign_speaker_for_interval *)

StrictlyInside(sg) == 2 * sg.start < aStart + aEnd /\ aStart + aEnd < 2 * sg.end
InsideOrOnEdge(sg) == 2 * sg.start <= aStart + aEnd /\ aStart + aEnd <= 2 * sg.end
OverlapOf(sg) == Min(aEnd, sg.end) - Max(aStart, sg.start)
SegIndices == 1..Len(aSegments)

\* C4: when exactly one diarized segment contains the midpoint (start+end)/2 strictly
\* inside it, the returned speaker is that segment's speaker, whatever the order of
\* the list and the overlaps of the other segments.
C4_MidpointSpeaker ==
  aPc = "done" =>
    \A i \in SegIndices :
      (StrictlyInside(aSegments[i])
         /\ \A j \in SegIndices \ {i} : ~StrictlyInside(aSegments[j]))
      => aResult = Some(aSegments[i].speaker)

\* C4 as amended: the same, when in addition no other segment has the midpoint on one
\* of its two boundaries.
C4_MidpointSpeakerAmended ==
  aPc = "done" =>
    \A i \in SegIndices :
      (StrictlyInside(aSegments[i])
         /\ \A j \in SegIndices \ {i} : ~InsideOrOnEdge(aSegments[j]))
      => aResult = Some(aSegments[i].speaker)

\* The segment holding the midpoint comes second, after a segment of another speaker
\* that overlaps the utterance more.
C4_Witness ==
  /\ aPc = "done"
  /\ Len(aSegments) = 2
  /\ StrictlyInside(aSegments[2])
  /\ ~InsideOrOnEdge(aSegments[1])
  /\ OverlapOf(aSegments[1]) > OverlapOf(aSegments[2])
  /\ aSegments[1].speaker # aSegments[2].speaker
  /\ aResult = Some(aSegments[2].speaker)

\* min(|midpoint - seg.start|, |midpoint - seg.end|), times two.
BoundaryDistance(sg) ==
  LET ds == IF aStart + aEnd >= 2 * sg.start THEN aStart + aEnd - 2 * sg.start
            ELSE 2 * sg.start - (aStart + aEnd)
      de == IF aStart + aEnd >= 2 * sg.end THEN aStart + aEnd - 2 * sg.end
            ELSE 2 * sg.end - (aStart + aEnd)
  IN IF ds <= de THEN ds ELSE de

\* The first segment, in list order, of greatest overlap with the utterance.
FirstGreatestOverlap ==
  CHOOSE i \in SegIndices :
    /\ \A j \in SegIndices : OverlapOf(aSegments[j]) <= OverlapOf(aSegments[i])
    /\ \A j \in SegIndices : j < i => OverlapOf(aSegments[j]) < OverlapOf(aSegments[i])

\* The first segment, in list order, whose nearer boundary is nearest to the midpoint.
FirstNearest ==
  CHOOSE i \in SegIndices :
    /\ \A j \in SegIndices : BoundaryDistance(aSegments[i]) <= BoundaryDistance(aSegments[j])
    /\ \A j \in SegIndices : j < i => BoundaryDistance(aSegments[j]) > BoundaryDistance(aSegments[i])

\* C9: with no segment holding the midpoint, the result is the speaker of the first
\* segment of greatest overlap when some overlap is positive, and else the speaker of
\* the first segment nearest to the midpoint by its boundaries; with an empty list the
\* result is 0, and with a non-empty list it is always the speaker of some segment.
C9_Fallbacks ==
  aPc = "done" =>
    /\ aSegments = <<>> => aResult = Some(0)
    /\ aSegments # <<>> => \E i \in SegIndices : aResult = Some(aSegments[i].speaker)
    /\ (aSegments # <<>> /\ \A i \in SegIndices : ~InsideOrOnEdge(aSegments[i])) =>
         IF \E i \in SegIndices : OverlapOf(aSegments[i]) > 0
         THEN aResult = Some(aSegments[FirstGreatestOverlap].speaker)
         ELSE aResult = Some(aSegments[FirstNearest].speaker)

\* Two segments of different speakers tie at the greatest, positive, overlap, neither
\* holds the midpoint, and the first one's speaker is returned.
C9_Witness ==
  /\ aPc = "done"
  /\ Len(aSegments) = 2
  /\ \A i \in SegIndices : ~InsideOrOnEdge(aSegments[i])
  /\ OverlapOf(aSegments[1]) > 0
  /\ OverlapOf(aSegments[1]) = OverlapOf(aSegments[2])
  /\ aSegments[1].speaker # aSegments[2].speaker
  /\ aResult = Some(aSegments[1].speaker)

-----------------------------------------------------------------------------
(* Properties of merge_transcript_segments *)

\* The utterances consumed so far whose text is not empty or whitespace only.
Spoken == SelectSeq(transcript_segments, LAMBDA u : Strip(u.text) # <<>>)

ResolvedSpeaker(u) == assign_speaker_for_interval(u.start, u.end, diarized_segments)

\* Utterance i of the list sp, with resolved speakers spk, continues the run of
\* utterance i - 1.
Continues(sp, spk, i) ==
  /\ i > 1
  /\ spk[i] = spk[i - 1]
  /\ sp[i].start - sp[i - 1].end <= merge_gap

\* The trimmed texts of utterances a..b of sp joined by single spaces.
RECURSIVE JoinTexts(_, _, _)
JoinTexts(sp, a, b) ==
  IF a = b THEN Strip(sp[a].text)
  ELSE JoinTexts(sp, a, b - 1) \o <<" ">> \o Strip(sp[b].text)

\* C2: each output segment is a maximal run of consecutive non-empty utterances of one
\* resolved speaker, each starting at most merge_gap after the end of the one before;
\* its start is the first utterance's start, its end the last one's end, its speaker
\* the resolved speaker and its text the trimmed texts joined by single spaces.
C2_RunsMerged ==
  LET sp == Spoken
      spk == [i \in 1..Len(sp) |-> ResolvedSpeaker(sp[i])]
      starts == {i \in 1..Len(sp) : ~Continues(sp, spk, i)}
      \* the run that utterance i belongs to, counted from 1
      runOf == [i \in 1..Len(sp) |-> Cardinality({m \in starts : m <= i})]
  IN /\ Len(merged) = Cardinality(starts)
     /\ \A j \in 1..Len(merged) :
          LET run == {i \in 1..Len(sp) : runOf[i] = j}
              first == CHOOSE i \in run : \A m \in run : i <= m
              last == CHOOSE i \in run : \A m \in run : m <= i
          IN /\ merged[j].start = sp[first].start
             /\ merged[j].end = sp[last].end
             /\ merged[j].speaker = spk[first]
             /\ \A i \in run : spk[i] = merged[j].speaker
             /\ merged[j].text = JoinTexts(sp, first, last)

\* Two utterances of one speaker exactly merge_gap apart are in one segment, whose
\* trimmed, joined text is "a b".
C2_Witness ==
  /\ mergePc = "done"
  /\ Len(Spoken) = 2
  /\ Spoken[2].start - Spoken[1].end = merge_gap
  /\ Len(merged) = 1
  /\ merged[1].text = <<"a", " ", "b">>
  /\ merged[1].end = Spoken[2].end
  /\ merged[1].end # Spoken[1].end

\* The list without its element at position p.
RemoveAt(list, p) == SubSeq(list, 1, p - 1) \o SubSeq(list, p + 1, Len(list))

\* merge_transcript_segments on a whole list.
RECURSIVE MergeAll(_, _, _)
MergeAll(list, diar, gap) ==
  IF list = <<>> THEN <<>>
  ELSE LET before == MergeAll(SubSeq(list, 1, Len(list) - 1), diar, gap)
       IN MergeOne(before, list[Len(list)], diar, gap)

\* C3: an utterance of empty or whitespace-only text inserted at any position of the
\* list leaves the output unchanged (the output for a list that holds such an
\* utterance at position p is the output for the list without it), and every output
\* segment has non-empty text.
C3_BlankIgnored ==
  /\ \A p \in 1..Len(transcript_segments) :
       Strip(transcript_segments[p].text) = <<>> =>
         merged = MergeAll(RemoveAt(transcript_segments, p), diarized_segments, merge_gap)
  /\ \A j \in 1..Len(merged) : merged[j].text # <<>>

\* A whitespace-only utterance stands between two utterances that coalesce, and its
\* own end lies where it would have broken the merge.
C3_Witness ==
  /\ mergePc = "done"
  /\ Len(transcript_segments) = 3
  /\ transcript_segments[2].text = <<" ">>
  /\ ~Skipped(transcript_segments[1]) /\ ~Skipped(transcript_segments[3])
  /\ transcript_segments[3].start - transcript_segments[2].end > merge_gap
  /\ transcript_segments[2].end # transcript_segments[1].end
  /\ Len(merged) = 1

\* No two neighbouring output segments could still be combined.
NoCoalescibleNeighbours ==
  \A j \in 2..Len(merged) :
    ~(merged[j].speaker = merged[j - 1].speaker
        /\ merged[j].start - merged[j - 1].end <= merge_gap)

\* A step leaves every output segment but the last as it was.
OnlyLastModified ==
  /\ Len(merged') >= Len(merged)
  /\ \A j \in 1..(Len(merged) - 1) : merged'[j] = merged[j]
  /\ Len(merged') > Len(merged) => (merged # <<>> => merged'[Len(merged)] = merged[Len(merged)])

\* C10: after every processed utterance, for any utterance list, only the last output
\* segment has ever been modified, and no two adjacent output segments have the same
\* speaker and a gap <= merge_gap.
C10_GreedyInvariant == [](NoCoalescibleNeighbours) /\ [][OnlyLastModified]_vars

\* Two output segments of one speaker, too far apart to combine, the second of them
\* extended by a third utterance.
C10_Witness ==
  /\ Len(merged) = 2
  /\ merged[1].speaker = merged[2].speaker
  /\ Len(Spoken) = 3
  /\ merged[2].end # Spoken[2].end

====
